---- MODULE Spec2Model ----
(***************************************************************************)
(* DatabaseVisualizer: the Streamlit script app.py and the three functions *)
(* of utils.py (process_csv, generate_network_graph, generate_stats).      *)
(*                                                                         *)
(* A CSV file is a header (a sequence of names) and a sequence of rows.    *)
(* A header name is a sequence of one-character strings, so that           *)
(* str.capitalize is computed and not assumed.  A cell is a name or NaN    *)
(* (pandas reads an empty cell as NaN).                                    *)
(***************************************************************************)
EXTENDS Integers, Sequences, FiniteSets, TLC

\* ------------------------------------------------------------------ bounds
MaxRows == 2          \* rows of a file with the documented header
MaxRowsVariant == 1   \* rows of a file with any other header

\* ------------------------------------------------------------ cell values
NaN == "nan"
DbOrder == <<"A", "B">>
TableOrder == <<"T1", "T2">>
ColOrder == <<"C1", "C2">>
DbNames == {DbOrder[i] : i \in 1..Len(DbOrder)}
TableNames == {TableOrder[i] : i \in 1..Len(TableOrder)}
ColNames == {ColOrder[i] : i \in 1..Len(ColOrder)}

\* pandas `series == value`: NaN equals nothing, itself included
Eq(a, b) == a # NaN /\ b # NaN /\ a = b

\* pandas `series.isin(values)`: hash-table membership, NaN matches NaN
isin(a, values) == a \in values

\* ---------------------------------------------------------- header names
LowerChars == <<"a", "b", "c", "d", "e", "l", "m", "n", "o", "s", "t", "u">>
UpperChars == <<"A", "B", "C", "D", "E", "L", "M", "N", "O", "S", "T", "U">>

upper(c) ==
    IF \E i \in 1..Len(LowerChars) : LowerChars[i] = c
    THEN UpperChars[CHOOSE i \in 1..Len(LowerChars) : LowerChars[i] = c]
    ELSE c

lower(c) ==
    IF \E i \in 1..Len(UpperChars) : UpperChars[i] = c
    THEN LowerChars[CHOOSE i \in 1..Len(UpperChars) : UpperChars[i] = c]
    ELSE c

\* str.capitalize: first character upper-cased, the rest lower-cased
capitalize(s) == [i \in 1..Len(s) |-> IF i = 1 THEN upper(s[i]) ELSE lower(s[i])]

Database == <<"D", "a", "t", "a", "b", "a", "s", "e">>
Table == <<"T", "a", "b", "l", "e">>
Column == <<"C", "o", "l", "u", "m", "n">>
required_columns == <<Database, Table, Column>>

\* ------------------------------------------------------------- DataFrames
\* [columns: header names, rows: sequences of cells, one per column,
\*  float_cols: the columns read as float64 (every cell of them NaN)]
ColumnCount(df, name) == Cardinality({i \in 1..Len(df.columns) : df.columns[i] = name})
ColumnIndex(df, name) == CHOOSE i \in 1..Len(df.columns) : df.columns[i] = name

\* df[name] as a sequence of cells (name labels exactly one column)
Series(df, name) == [k \in 1..Len(df.rows) |-> df.rows[k][ColumnIndex(df, name)]]
Cell(df, row, name) == row[ColumnIndex(df, name)]

RECURSIVE unique(_)
\* Series.unique(): the values in order of first appearance, NaN kept once
unique(s) ==
    IF s = <<>> THEN <<>>
    ELSE LET front == unique(SubSeq(s, 1, Len(s) - 1))
             last == s[Len(s)]
         IN IF \E i \in 1..Len(front) : front[i] = last THEN front
            ELSE Append(front, last)

ToSet(s) == {s[i] : i \in 1..Len(s)}

\* df[df[name].isin(values)]: the rows kept, column types unchanged
SelectRows(df, name, values) ==
    [df EXCEPT !.rows = SelectSeq(df.rows, LAMBDA r : isin(Cell(df, r, name), values))]

\* pd.read_csv: a column whose cells are all empty is float64, any other
\* column of names is object
read_csv(file) ==
    [columns |-> file.columns,
     rows |-> file.rows,
     float_cols |-> {i \in 1..Len(file.columns) :
                        /\ file.rows # <<>>
                        /\ \A k \in 1..Len(file.rows) : file.rows[k][i] = NaN}]

\* ------------------------------------------------------------ process_csv
\* KeyError when a required name labels no column after capitalising,
\* AttributeError (DataFrame has no unique) when it labels two
process_csv(df) ==
    LET renamed == [df EXCEPT !.columns = [i \in 1..Len(df.columns) |->
                                             capitalize(df.columns[i])]]
        one(name) == ColumnCount(renamed, name) = 1
    IN IF one(Database) /\ one(Table) /\ one(Column)
       THEN [ok |-> TRUE,
             databases |-> unique(Series(renamed, Database)),
             tables |-> unique(Series(renamed, Table)),
             columns |-> unique(Series(renamed, Column)),
             df_processed |-> renamed]
       ELSE [ok |-> FALSE,
             databases |-> <<>>, tables |-> <<>>, columns |-> <<>>,
             df_processed |-> renamed]

\* --------------------------------------------------- generate_network_graph
db_padding == 50
table_padding == 20
vertical_padding == 20
db_name_width == 30
db_name_height == 30
table_header_height == 30
row_height == 25
table_width == 150
min_db_width == 150
extra_padding == 20
db_top == 50
table_inset == 20
start_x == 80
canvas_margin == 60

db_border_color == "#000080"
db_name_color == "#000080"
table_header_color == "#CCCCCC"
even_row_color == "#FFFFFF"
odd_row_color == "#F5F5F5"
border_color == "#000000"

Max(a, b) == IF a >= b THEN a ELSE b

\* fig.add_shape.  db, table and col_idx record the loop variables the shape
\* was drawn under ("" and -1 where the loop is not entered yet).
Shape(type, x0, y0, x1, y1, line_color, line_width, fillcolor, db, table, col_idx) ==
    [type |-> type, x0 |-> x0, y0 |-> y0, x1 |-> x1, y1 |-> y1,
     line_color |-> line_color, line_width |-> line_width, fillcolor |-> fillcolor,
     db |-> db, table |-> table, col_idx |-> col_idx]

\* fig.add_annotation.  x2 and y2 are twice the coordinates (row_height/2 and
\* table_width*0.85 are not integers).
Annotation(x2, y2, text, bold, size, xanchor) ==
    [x2 |-> x2, y2 |-> y2, text |-> text, bold |-> bold, size |-> size,
     xanchor |-> xanchor]

\* df[df['Database'] == db_name]['Table'].unique()
db_tables_of(df, db_name) ==
    LET rows == SelectSeq(df.rows, LAMBDA r : Eq(Cell(df, r, Database), db_name))
    IN unique([k \in 1..Len(rows) |-> Cell(df, rows[k], Table)])

\* df[(df['Database'] == db_name) & (df['Table'] == table_name)]['Column'].values
table_columns_of(df, db_name, table_name) ==
    LET rows == SelectSeq(df.rows, LAMBDA r : /\ Eq(Cell(df, r, Database), db_name)
                                              /\ Eq(Cell(df, r, Table), table_name))
    IN [k \in 1..Len(rows) |-> Cell(df, rows[k], Column)]

\* the table height without its rows
table_height_header_only(table_columns) == table_header_height

table_height_of(table_columns) == table_header_height + Len(table_columns) * row_height

\* first pass: db_widths[db_name]
db_width_of(df, db_name) ==
    LET db_width == Len(db_tables_of(df, db_name)) * (table_width + table_padding)
                    - table_padding
    IN Max(min_db_width, db_width)

RECURSIVE max_table_height_of(_, _, _, _)
\* first pass: max_table_height after the first n tables of db_tables
max_table_height_of(df, db_name, db_tables, n) ==
    IF n = 0 THEN 0
    ELSE Max(max_table_height_of(df, db_name, db_tables, n - 1),
             table_height_of(table_columns_of(df, db_name, db_tables[n])))

\* first pass: db_max_heights[db_name]
db_max_height_of(df, db_name) ==
    LET db_tables == db_tables_of(df, db_name)
    IN max_table_height_of(df, db_name, db_tables, Len(db_tables))
       + vertical_padding + extra_padding

\* the right border without the table padding
db_right_unpadded(df, db_name, db_left) == db_left + db_width_of(df, db_name)

db_right_of(df, db_name, db_left) == db_left + db_width_of(df, db_name) + table_padding

\* the next table one padding to the right, its width forgotten
next_table_x_padding_only(table_x) == table_x + table_padding

next_table_x_of(table_x) == table_x + table_width + table_padding

RECURSIVE draw_columns(_, _, _, _, _, _)
\* the loop over table_columns, after its first n turns
draw_columns(db_name, table_name, table_columns, table_x, table_y, n) ==
    IF n = 0 THEN [shapes |-> <<>>, annotations |-> <<>>]
    ELSE LET prev == draw_columns(db_name, table_name, table_columns,
                                  table_x, table_y, n - 1)
             col_idx == n - 1
             col_name == table_columns[n]
             row_y == table_y + table_header_height + col_idx * row_height
             row_color == IF col_idx % 2 = 0 THEN even_row_color ELSE odd_row_color
             divider_x == table_x + (table_width * 7) \div 10
         IN [shapes |-> prev.shapes \o
                 << Shape("rect", table_x, row_y, table_x + table_width,
                          row_y + row_height, border_color, 1, row_color,
                          db_name, table_name, col_idx),
                    Shape("line", divider_x, row_y, divider_x, row_y + row_height,
                          border_color, 1, "", db_name, table_name, col_idx) >>,
             annotations |-> prev.annotations \o
                 << Annotation(2 * (table_x + 10), 2 * row_y + row_height,
                               col_name, FALSE, 10, "left"),
                    Annotation(2 * table_x + (table_width * 17) \div 10,
                               2 * row_y + row_height, "INT", FALSE, 9, "center") >>]

RECURSIVE draw_tables(_, _, _, _, _, _)
\* the loop over db_tables, after its first n turns
draw_tables(df, db_name, db_tables, db_left, db_bottom0, n) ==
    IF n = 0
    THEN [shapes |-> <<>>, annotations |-> <<>>,
          table_x |-> db_left + table_inset, db_bottom |-> db_bottom0]
    ELSE LET prev == draw_tables(df, db_name, db_tables, db_left, db_bottom0, n - 1)
             table_name == db_tables[n]
             table_columns == table_columns_of(df, db_name, table_name)
             table_height == table_height_of(table_columns)
             table_x == prev.table_x
             table_y == db_top + vertical_padding
             rows == draw_columns(db_name, table_name, table_columns,
                                  table_x, table_y, Len(table_columns))
             current_table_bottom == table_y + table_height
         IN [shapes |-> prev.shapes \o
                 << Shape("rect", table_x, table_y, table_x + table_width,
                          table_y + table_header_height, border_color, 1,
                          table_header_color, db_name, table_name, -1) >>
                 \o rows.shapes,
             annotations |-> prev.annotations \o
                 << Annotation(2 * (table_x + 10), 2 * table_y + table_header_height,
                               table_name, TRUE, 12, "left") >>
                 \o rows.annotations,
             table_x |-> next_table_x_of(table_x),
             db_bottom |-> Max(prev.db_bottom, current_table_bottom + vertical_padding)]

RECURSIVE draw_databases(_, _, _)
\* the second pass, after its first n turns
draw_databases(df, databases, n) ==
    IF n = 0
    THEN [shapes |-> <<>>, annotations |-> <<>>,
          current_x |-> start_x, max_height |-> 0]
    ELSE LET prev == draw_databases(df, databases, n - 1)
             db_name == databases[n]
             db_tables == db_tables_of(df, db_name)
             db_bottom0 == db_top + db_max_height_of(df, db_name) + vertical_padding
             db_left == prev.current_x
             db_right == db_right_of(df, db_name, db_left)
             drawn == draw_tables(df, db_name, db_tables, db_left, db_bottom0,
                                  Len(db_tables))
         IN [shapes |-> prev.shapes \o
                 << Shape("rect", db_left - db_name_width, db_top, db_left,
                          db_top + db_name_height, border_color, 1, db_name_color,
                          db_name, "", -1),
                    Shape("rect", db_left, db_top, db_right, db_bottom0,
                          db_border_color, 2, "", db_name, "", -1) >>
                 \o drawn.shapes,
             annotations |-> prev.annotations \o
                 << Annotation(2 * db_left - db_name_width, 2 * db_top + db_name_height,
                               db_name, TRUE, 14, "center") >>
                 \o drawn.annotations,
             current_x |-> db_right + db_padding,
             max_height |-> Max(prev.max_height, drawn.db_bottom)]

canvas_width_of(current_x) == current_x

\* the canvas height without the margin
canvas_height_no_margin(max_height) == max_height

canvas_height_of(max_height) == max_height + canvas_margin

\* The dictionaries db_widths and db_max_heights are keyed by the elements of
\* df['Database'].unique().  Iterating a float64 array makes a new NaN scalar
\* at each turn, and a NaN key is found again only by identity: the second
\* pass may then raise KeyError.
nan_key_lookup(df) ==
    /\ df.rows # <<>>
    /\ ColumnIndex(df, Database) \in df.float_cols

generate_network_graph(df) ==
    LET databases == unique(Series(df, Database))
        drawn == draw_databases(df, databases, Len(databases))
    IN [shapes |-> drawn.shapes,
        annotations |-> drawn.annotations,
        width |-> canvas_width_of(drawn.current_x),
        height |-> canvas_height_of(drawn.max_height)]

\* ----------------------------------------------------------- generate_stats
NonNaN(cells) == {v \in cells : v # NaN}

\* groupby drops the rows whose key is NaN; nunique and count skip NaN values
generate_stats(df) ==
    LET groups == NonNaN(ToSet(Series(df, Database)))
        pairs == {<<Cell(df, df.rows[k], Database), Cell(df, df.rows[k], Table)>> :
                     k \in {j \in 1..Len(df.rows) :
                               /\ Cell(df, df.rows[j], Database) # NaN
                               /\ Cell(df, df.rows[j], Table) # NaN}}
        db_table_counts ==
            [d \in groups |->
                Cardinality(NonNaN({Cell(df, df.rows[k], Table) :
                    k \in {j \in 1..Len(df.rows) : Cell(df, df.rows[j], Database) = d}}))]
        table_counts ==
            [g \in pairs |->
                Len(SelectSeq(df.rows, LAMBDA r : /\ Cell(df, r, Database) = g[1]
                                                  /\ Cell(df, r, Table) = g[2]
                                                  /\ Cell(df, r, Column) # NaN))]
        db_column_counts ==
            [d \in groups |->
                Len(SelectSeq(df.rows, LAMBDA r : /\ Cell(df, r, Database) = d
                                                  /\ Cell(df, r, Column) # NaN))]
    IN [db_table_counts |-> db_table_counts,
        table_counts |-> table_counts,
        db_column_counts |-> db_column_counts,
        stats_df |-> [d \in groups |->
                         [tables |-> db_table_counts[d],
                          columns |-> db_column_counts[d]]]]

\* ------------------------------------------------------------------- files
Name == <<"N", "a", "m", "e">>
str_lower(s) == [i \in 1..Len(s) |-> lower(s[i])]
str_upper(s) == [i \in 1..Len(s) |-> upper(s[i])]

Rows3 == {<<d, t, c>> : d \in DbNames \cup {NaN}, t \in TableNames \cup {NaN},
                        c \in ColNames \cup {NaN}}
SeqsUpTo(S, n) == UNION {[1..k -> S] : k \in 0..n}

\* headers other than the documented one: lower case, upper case, the Column
\* field under another name, and a fourth column that differs from Database
\* by case only
VariantHeaders ==
    { <<str_lower(Database), str_lower(Table), str_lower(Column)>>,
      <<str_upper(Database), str_upper(Table), str_upper(Column)>>,
      <<Database, Table, Name>>,
      <<Database, Table, Column, str_lower(Database)>> }

Widen(rows, width) ==
    [k \in 1..Len(rows) |-> IF width = 3 THEN rows[k] ELSE Append(rows[k], "x")]

\* Names are opaque to the program: a file is taken up to renaming, with the
\* names of each field introduced in the order of `order`.
InOrder(cells, order) ==
    \A k \in 1..Len(cells) : \A j \in 2..Len(order) :
        cells[k] = order[j] => \E i \in 1..(k - 1) : cells[i] = order[j - 1]

Canonical(rs) ==
    /\ InOrder([k \in 1..Len(rs) |-> rs[k][1]], DbOrder)
    /\ InOrder([k \in 1..Len(rs) |-> rs[k][2]], TableOrder)
    /\ InOrder([k \in 1..Len(rs) |-> rs[k][3]], ColOrder)

RowSeqs(n) == {rs \in SeqsUpTo(Rows3, n) : Canonical(rs)}

Files ==
    {[columns |-> required_columns, rows |-> rs] : rs \in RowSeqs(MaxRows)}
    \cup
    {[columns |-> h, rows |-> Widen(rs, Len(h))] :
        h \in VariantHeaders, rs \in RowSeqs(MaxRowsVariant)}

\* ------------------------------------------------------------------ app.py
VARIABLES
    status,           \* what the page shows: "start", "sample", "sample_skipped",
                      \* "rejected" (header error), "failed" (exception), "shown"
    uploaded_file,    \* <<>> (None) or <<file>>
    databases, tables, columns, df_processed,    \* what process_csv returned
    selected_db, selected_tables,                \* the multiselect widgets
    filtered_df,
    fig,              \* <<>> or <<the figure given to st.plotly_chart>>
    warning,          \* "No data to display with the current filters."
    stats             \* <<>> or <<what generate_stats returned>>

vars == <<status, uploaded_file, databases, tables, columns, df_processed,
          selected_db, selected_tables, filtered_df, fig, warning, stats>>

empty_df == [columns |-> <<>>, rows |-> <<>>, float_cols |-> {}]

\* app.py 43-44
has_required_columns(df) ==
    \A i \in 1..Len(required_columns) :
        \E j \in 1..Len(df.columns) : df.columns[j] = required_columns[i]

\* app.py 69: the options of the table filter
available_tables_of(df, sel_db) ==
    unique(Series(SelectRows(df, Database, sel_db), Table))

\* app.py 79-83: an empty selection is falsy and leaves the frame as it is
filter_df(df, sel_db, sel_tables) ==
    LET by_db == IF sel_db # {}
                 THEN SelectRows(df, Database, sel_db)
                 ELSE df
    IN IF sel_tables # {}
       THEN SelectRows(by_db, Table, sel_tables)
       ELSE by_db

\* the outcomes of the dictionary lookups of the second pass
KeyErrors(df) == IF nan_key_lookup(df) THEN BOOLEAN ELSE {FALSE}

\* app.py 37-127, one run of the script with a file uploaded.  use_default:
\* the widgets are new and return their defaults.
upload_page(file, use_default, sel, key_error) ==
    LET df == read_csv(file)
        p == process_csv(df)
        sel_db == IF use_default THEN ToSet(p.databases) ELSE sel[1]
        sel_tables ==
            IF use_default
            THEN (IF sel_db # {}
                  THEN ToSet(available_tables_of(p.df_processed, sel_db)) ELSE {})
            ELSE sel[2]
        filtered == filter_df(p.df_processed, sel_db, sel_tables)
        blank == [status |-> "rejected", databases |-> <<>>, tables |-> <<>>,
                  columns |-> <<>>, df_processed |-> empty_df,
                  selected_db |-> {}, selected_tables |-> {},
                  filtered_df |-> empty_df, fig |-> <<>>, warning |-> FALSE,
                  stats |-> <<>>]
        processed == [blank EXCEPT !.databases = p.databases, !.tables = p.tables,
                                   !.columns = p.columns,
                                   !.df_processed = p.df_processed,
                                   !.selected_db = sel_db,
                                   !.selected_tables = sel_tables,
                                   !.filtered_df = filtered]
    IN IF ~has_required_columns(df) THEN blank
       ELSE IF ~p.ok THEN [blank EXCEPT !.status = "failed"]
       ELSE IF filtered.rows # <<>> /\ key_error
            THEN [processed EXCEPT !.status = "failed"]
       ELSE [processed EXCEPT
                !.status = "shown",
                !.fig = IF filtered.rows # <<>>
                        THEN <<generate_network_graph(filtered)>> ELSE <<>>,
                !.warning = (filtered.rows = <<>>),
                !.stats = <<generate_stats(p.df_processed)>>]

Show(page, file) ==
    /\ status' = page.status
    /\ uploaded_file' = file
    /\ databases' = page.databases
    /\ tables' = page.tables
    /\ columns' = page.columns
    /\ df_processed' = page.df_processed
    /\ selected_db' = page.selected_db
    /\ selected_tables' = page.selected_tables
    /\ filtered_df' = page.filtered_df
    /\ fig' = page.fig
    /\ warning' = page.warning
    /\ stats' = page.stats

Init ==
    /\ status = "start"
    /\ uploaded_file = <<>>
    /\ databases = <<>> /\ tables = <<>> /\ columns = <<>>
    /\ df_processed = empty_df
    /\ selected_db = {} /\ selected_tables = {}
    /\ filtered_df = empty_df
    /\ fig = <<>>
    /\ warning = FALSE
    /\ stats = <<>>

\* app.py 128-145: no file uploaded, attached_assets/DB.csv holds `file`
SampleShown(file) ==
    /\ status = "start"
    /\ LET sample_df == read_csv(file)
           p == process_csv(sample_df)
       IN /\ p.ok
          /\ \E key_error \in KeyErrors(p.df_processed) :
                /\ ~key_error
                /\ Show([status |-> "sample", databases |-> p.databases,
                         tables |-> p.tables, columns |-> p.columns,
                         df_processed |-> p.df_processed,
                         selected_db |-> {}, selected_tables |-> {},
                         filtered_df |-> empty_df,
                         fig |-> <<generate_network_graph(p.df_processed)>>,
                         warning |-> FALSE, stats |-> <<>>], <<>>)

\* app.py 144-145: any exception of the sample branch is swallowed
SampleSkipped(file) ==
    /\ status = "start"
    /\ LET sample_df == read_csv(file)
           p == process_csv(sample_df)
       IN \/ ~p.ok
          \/ p.ok /\ TRUE \in KeyErrors(p.df_processed)
    /\ status' = "sample_skipped"
    /\ UNCHANGED <<uploaded_file, databases, tables, columns, df_processed,
                   selected_db, selected_tables, filtered_df, fig, warning, stats>>

\* app.py 44-45
UploadRejected(file) ==
    /\ status = "start"
    /\ LET page == upload_page(file, TRUE, <<{}, {}>>, FALSE)
       IN page.status = "rejected" /\ Show(page, <<file>>)

\* app.py 126-127
UploadFailed(file) ==
    /\ status = "start"
    /\ \E key_error \in BOOLEAN :
        LET page == upload_page(file, TRUE, <<{}, {}>>, key_error)
        IN /\ page.status = "failed"
           /\ key_error => nan_key_lookup(page.filtered_df)
           /\ Show(page, <<file>>)

\* app.py 46-124, the first run after the upload
UploadShown(file) ==
    /\ status = "start"
    /\ LET page == upload_page(file, TRUE, <<{}, {}>>, FALSE)
       IN page.status = "shown" /\ Show(page, <<file>>)

\* st.multiselect: one interaction adds an option, removes one, or clears all
Interactions(selected, options) ==
    {selected \cup {o} : o \in options \ selected}
    \cup {selected \ {o} : o \in selected}
    \cup (IF selected # {} THEN {{}} ELSE {})

\* app.py 61-76: what the table filter returns after the database filter
\* changed: its default over the new options, or the value it held when that
\* is still among the options; [] with no database selected
TablesAfter(df, sel_db) ==
    IF sel_db = {} THEN {{}}
    ELSE LET options == ToSet(available_tables_of(df, sel_db))
         IN {options} \cup (IF selected_tables \subseteq options
                            THEN {selected_tables} ELSE {})

\* app.py 37-127, the run after the user changed the database filter
RerunDatabases ==
    /\ status \in {"shown", "failed"}
    /\ df_processed # empty_df
    /\ \E sel_db \in Interactions(selected_db, ToSet(databases)) :
       \E sel_tables \in TablesAfter(df_processed, sel_db) :
       \E key_error \in KeyErrors(filter_df(df_processed, sel_db, sel_tables)) :
          Show(upload_page(uploaded_file[1], FALSE, <<sel_db, sel_tables>>, key_error),
               uploaded_file)

\* app.py 37-127, the run after the user changed the table filter
RerunTables ==
    /\ status \in {"shown", "failed"}
    /\ df_processed # empty_df
    /\ selected_db # {}
    /\ \E sel_tables \in Interactions(selected_tables,
                           ToSet(available_tables_of(df_processed, selected_db))) :
       \E key_error \in KeyErrors(filter_df(df_processed, selected_db, sel_tables)) :
          Show(upload_page(uploaded_file[1], FALSE, <<selected_db, sel_tables>>,
                           key_error),
               uploaded_file)

Next ==
    \/ \E file \in Files : SampleShown(file)
    \/ \E file \in Files : SampleSkipped(file)
    \/ \E file \in Files : UploadRejected(file)
    \/ \E file \in Files : UploadFailed(file)
    \/ \E file \in Files : UploadShown(file)
    \/ RerunDatabases
    \/ RerunTables

Spec == Init /\ [][Next]_vars

\* ------------------------------------------------------------- properties
\* the frame handed to generate_network_graph for the figure on the page
layout_input == IF status = "sample" THEN df_processed ELSE filtered_df

Shapes == IF fig = <<>> THEN <<>> ELSE fig[1].shapes
IsBorder(s) == s.type = "rect" /\ s.line_width = 2
IsTableHeader(s) == s.type = "rect" /\ s.fillcolor = table_header_color
IsColumnRow(s) == s.type = "rect" /\ s.fillcolor \in {even_row_color, odd_row_color}
IsTableBox(s) == IsTableHeader(s) \/ IsColumnRow(s)

Borders == {i \in 1..Len(Shapes) : IsBorder(Shapes[i])}
TableHeaders == {i \in 1..Len(Shapes) : IsTableHeader(Shapes[i])}
ColumnRows == {i \in 1..Len(Shapes) : IsColumnRow(Shapes[i])}
TableBoxes == {i \in 1..Len(Shapes) : IsTableBox(Shapes[i])}

XDisjoint(a, b) == a.x1 < b.x0 \/ b.x1 < a.x0

HasNaN(df) == \E k \in 1..Len(df.rows) : \E i \in 1..Len(df.rows[k]) : df.rows[k][i] = NaN

Triple(df, r) == <<Cell(df, r, Database), Cell(df, r, Table), Cell(df, r, Column)>>
Entries(df) == {Triple(df, df.rows[k]) : k \in 1..Len(df.rows)}

\* C1: two distinct table boxes of one database have disjoint x-ranges, and
\* two distinct database border rectangles have disjoint x-ranges.
NoOverlap ==
    \A i, j \in 1..Len(Shapes) :
        LET a == Shapes[i]
            b == Shapes[j]
        IN /\ (IsTableBox(a) /\ IsTableBox(b) /\ a.db = b.db /\ a.table # b.table)
                => XDisjoint(a, b)
           /\ (i # j /\ IsBorder(a) /\ IsBorder(b)) => XDisjoint(a, b)

\* a figure with two tables side by side in one database
SiblingTablesDrawn ==
    \E i, j \in TableHeaders :
        Shapes[i].db = Shapes[j].db /\ Shapes[i].table # Shapes[j].table

\* C2: with no database selected the filter retains no row and nothing is
\* handed to the layout (stated for frames without null cells).
EmptySelectionEmptyModel ==
    (status = "shown" /\ selected_db = {} /\ ~HasNaN(df_processed))
        => (filtered_df.rows = <<>> /\ fig = <<>>)

\* C3: a run that widens both selections retains at least the entries the
\* run before it retained (stated for frames without null cells).
FilterMonotone ==
    [][(/\ status = "shown" /\ status' = "shown"
        /\ ~HasNaN(df_processed)
        /\ uploaded_file' = uploaded_file
        /\ selected_db \subseteq selected_db'
        /\ selected_tables \subseteq selected_tables')
       => Entries(filtered_df) \subseteq Entries(filtered_df')]_vars

\* C4: the figure holds one border per distinct database, one header per
\* distinct (database, table) and one column row per distinct (database,
\* table, column), repeated triples included (stated for frames without null
\* cells).
CardinalityPreserved ==
    (fig # <<>> /\ ~HasNaN(layout_input)) =>
        LET e == Entries(layout_input)
        IN /\ Cardinality(Borders) = Cardinality({t[1] : t \in e})
           /\ Cardinality(TableHeaders) = Cardinality({<<t[1], t[2]>> : t \in e})
           /\ Cardinality(ColumnRows) = Cardinality(e)

RECURSIVE SumOver(_, _)
SumOver(f, keys) ==
    IF keys = {} THEN 0
    ELSE LET k == CHOOSE x \in keys : TRUE
         IN f[k] + SumOver(f, keys \ {k})

\* C5: the statistics count distinct tables per database and distinct columns
\* per table, and the columns of a database are the sum over its tables,
\* repeated triples included (stated for frames without null cells).
StatsCountDistinct ==
    (stats # <<>> /\ ~HasNaN(df_processed)) =>
        LET e == Entries(df_processed)
            st == stats[1]
        IN /\ \A d \in {t[1] : t \in e} :
                /\ st.db_table_counts[d] = Cardinality({t[2] : t \in {u \in e : u[1] = d}})
                /\ st.db_column_counts[d] =
                     SumOver(st.table_counts, {g \in DOMAIN st.table_counts : g[1] = d})
           /\ \A g \in {<<t[1], t[2]>> : t \in e} :
                st.table_counts[g] =
                    Cardinality({t[3] : t \in {u \in e : u[1] = g[1] /\ u[2] = g[2]}})

\* C6 as amended: the layout of zero databases has no primitive, and its
\* canvas is the margins alone, 80 wide and 60 high.
EmptyLayoutMarginCanvas ==
    (fig # <<>> /\ layout_input.rows = <<>>) =>
        /\ fig[1].shapes = <<>>
        /\ fig[1].annotations = <<>>
        /\ fig[1].width = 80
        /\ fig[1].height = 60

\* C6 as stated: the canvas of zero databases is 0 wide and 0 high.
EmptyLayoutZeroCanvas ==
    (fig # <<>> /\ layout_input.rows = <<>>) =>
        /\ fig[1].shapes = <<>>
        /\ fig[1].annotations = <<>>
        /\ fig[1].width = 0
        /\ fig[1].height = 0

\* the sample file holds a header and no row, and its figure is on the page
EmptyFrameDrawn == status = "sample" /\ fig # <<>> /\ df_processed.rows = <<>>

\* the columns of the uploaded file that are `name` but for case
MatchesIgnoringCase(name) ==
    {j \in 1..Len(uploaded_file[1].columns) :
        str_lower(uploaded_file[1].columns[j]) = str_lower(name)}

\* C7: an uploaded file whose header names each required field once, in any
\* case, is accepted and processed; a missing field is the only rejection.
HeaderCaseInsensitive ==
    (uploaded_file # <<>>) =>
        LET present == \A i \in 1..Len(required_columns) :
                          MatchesIgnoringCase(required_columns[i]) # {}
            once == \A i \in 1..Len(required_columns) :
                       Cardinality(MatchesIgnoringCase(required_columns[i])) = 1
        IN /\ once => (status # "rejected" /\ df_processed.columns # <<>>)
           /\ ~present => status = "rejected"

\* C8: no model holds a null database, table or column name, and no shape is
\* drawn for one.
NoNullName ==
    /\ NaN \notin ToSet(databases) \cup ToSet(tables) \cup ToSet(columns)
    /\ \A i \in 1..Len(Shapes) : Shapes[i].db # NaN /\ Shapes[i].table # NaN

\* the distinct Table values among the rows of database d; a null database
\* name equals the name of no row
TablesOf(df, d) ==
    IF d = NaN THEN {}
    ELSE {Cell(df, df.rows[k], Table) :
             k \in {j \in 1..Len(df.rows) : Cell(df, df.rows[j], Database) = d}}

\* C9 as amended: the border of a database with n tables is
\* max(150, n * (150 + 20) - 20) + 20 wide.
BorderWidthPadded ==
    \A i \in Borders :
        LET n == Cardinality(TablesOf(layout_input, Shapes[i].db))
        IN Shapes[i].x1 - Shapes[i].x0 = Max(150, n * (150 + 20) - 20) + 20

\* C9 as stated: the border of a database with n tables is
\* max(150, n * (150 + 20) - 20) wide (stated for frames without null cells).
BorderWidthUnpadded ==
    ~HasNaN(layout_input) => \A i \in Borders :
        LET n == Cardinality(TablesOf(layout_input, Shapes[i].db))
        IN Shapes[i].x1 - Shapes[i].x0 = Max(150, n * (150 + 20) - 20)

\* a border drawn around two tables
TwoTableBorderDrawn ==
    \E i \in Borders : Cardinality(TablesOf(layout_input, Shapes[i].db)) = 2

\* C10: every table header and every column row lies inside the border of
\* its own database.
Containment ==
    \A i \in TableBoxes :
        \E j \in Borders :
            LET s == Shapes[i]
                b == Shapes[j]
            IN /\ b.db = s.db
               /\ b.x0 <= s.x0 /\ s.x1 <= b.x1
               /\ b.y0 <= s.y0 /\ s.y1 <= b.y1

\* a table drawn with a second column row
SecondRowDrawn == \E i \in ColumnRows : Shapes[i].col_idx = 1

====
